---- MODULE Spec2Model ----
(***************************************************************************)
(* Farm Health Scanner: the React component App and its event handlers     *)
(* handleImageChange / handleSubmit with the two Gemini calls.             *)
(*                                                                         *)
(* The repository holds two versions of the component:                     *)
(*   "App"  = src/src/App.jsx                                              *)
(*   "Part" = src/unnamed/part_000                                         *)
(* The variable `variant` fixes, at construction, which one is running.    *)
(*                                                                         *)
(* JavaScript strings are sequences of tokens (a token is one character    *)
(* such as "*" or " ", or an opaque word); "" is << >>.                    *)
(***************************************************************************)
EXTENDS Naturals, Sequences, FiniteSets

\* ------------------------------------------------------------------ bounds
MaxReaders == 2   \* FileReader objects whose read is still pending
MaxScans == 2     \* handleSubmit executions tracked at the same time
MaxDirect == 1    \* executions in flight beyond which no direct call is made

\* ------------------------------------------------------------- JS values
Null == [t |-> "null"]
Str(s) == [t |-> "string", v |-> s]
\* JavaScript truthiness of a value that is null or a string
Truthy(x) == x.t = "string" /\ x.v # << >>

\* ---------------------------------------------------------------- inputs
\* What the file picker can hand over: event.target.files[0]
NoFile == [present |-> FALSE]
PngFile == [present |-> TRUE, type |-> <<"image/", "png">>, payload |-> <<"iVBORw0">>]
JpegFile == [present |-> TRUE, type |-> <<"image/", "jpeg">>, payload |-> <<"/9j/4AA">>]
TextFile == [present |-> TRUE, type |-> <<"text/", "plain">>, payload |-> <<"aGVsbG8">>]
ImageFiles == {PngFile, JpegFile}
Files == ImageFiles \cup {TextFile}
Selections == Files \cup {NoFile}

\* String.prototype.startsWith on token sequences
startsWith(s, prefix) == Len(s) >= Len(prefix) /\ SubSeq(s, 1, Len(prefix)) = prefix

\* file.type.startsWith('image/')
IsImage(file) == startsWith(file.type, <<"image/">>)

\* FileReader.readAsDataURL: "data:<type>;base64,<payload>"
readAsDataURL(file) == <<"data:">> \o file.type \o <<";base64", ",">> \o file.payload

\* Positions of the separator token in s
SepPositions(s, sep) == {i \in 1..Len(s) : s[i] = sep}

RECURSIVE split(_, _)
\* String.prototype.split(sep): the pieces between the separators
split(s, sep) ==
    IF SepPositions(s, sep) = {}
    THEN <<s>>
    ELSE LET p == CHOOSE i \in SepPositions(s, sep) : \A j \in SepPositions(s, sep) : i <= j
         IN <<SubSeq(s, 1, p - 1)>> \o split(SubSeq(s, p + 1, Len(s)), sep)

\* reader.result.split(',')[1]   (JS index 1 is the second piece)
base64String(file) == split(readAsDataURL(file), ",")[2]

\* text.replace(/\*/g, "")
StripStars(s) == SelectSeq(s, LAMBDA c : c # "*")

RECURSIVE TrimLeft(_)
TrimLeft(s) == IF s # << >> /\ Head(s) = " " THEN TrimLeft(Tail(s)) ELSE s

RECURSIVE TrimRight(_)
TrimRight(s) ==
    IF s # << >> /\ s[Len(s)] = " " THEN TrimRight(SubSeq(s, 1, Len(s) - 1)) ELSE s

\* String.prototype.trim
trim(s) == TrimRight(TrimLeft(s))

\* ----------------------------------------------------------------- state
VARIABLES
    variant,             \* "App" or "Part": which version of the component runs
    selectedImage,       \* useState(null): Null or Str(base64)
    mimeType,            \* useState(""), part_000 only
    problemDescription,  \* useState("")
    suggestedSolutions,  \* useState("")
    loading,             \* useState(false)
    error,               \* useState("")
    inputFile,           \* the file input's current event.target.files[0]
    readers,             \* files whose FileReader read is pending
    scans,               \* the handleSubmit executions
    problemOf,           \* history: the image whose scan wrote problemDescription
    solutionsOf          \* history: the image whose scan wrote suggestedSolutions

vars == <<variant, selectedImage, mimeType, problemDescription, suggestedSolutions,
          loading, error, inputFile, readers, scans, problemOf, solutionsOf>>

uiVars == <<selectedImage, mimeType, problemDescription, suggestedSolutions, loading, error>>


\* --------------------------------------------------------------- messages
PleaseUploadApp == "Please upload an image file (e.g., JPEG, PNG)."
PleaseUploadPart == "Please upload an image file (JPEG, PNG, etc)."
FailedToRead == "Failed to read image file."
PleaseSelect == "Please select an image to scan."
CouldNotDiagnose == <<"Could not diagnose the problem.">>
CouldNotSuggest == <<"Could not suggest solutions.">>

\* ------------------------------------------------------------- responses
\* What the generative endpoint can answer to one fetch: the fetch promise
\* rejects (network failure), or resolves with an HTTP status that is not
\* ok, or resolves ok with a body whose candidates carry the text parts.
ReplyTexts == {<< >>, <<"*", "*">>, <<" ", "*", "Leaf", "*", " ", "rust">>}
Rejected == [fetch |-> "rejected", ok |-> FALSE, candidates |-> << >>]
HttpError == [fetch |-> "resolved", ok |-> FALSE, candidates |-> << >>]
OkBody(cands) == [fetch |-> "resolved", ok |-> TRUE, candidates |-> cands]
Responses == {Rejected, HttpError, OkBody(<< >>)} \cup {OkBody(<<t>>) : t \in ReplyTexts}

Return(value) == [threw |-> FALSE, value |-> value, message |-> ""]
Throw(message) == [threw |-> TRUE, value |-> << >>, message |-> message]

\* ----------------------------------------------------------------- scans
Slots == 1..MaxScans
FreeScan ==
    [pc |-> "free", image |-> Null, mime |-> << >>, problem |-> << >>,
     vision |-> "none", text |-> "none"]

\* A handleSubmit execution is suspended at one of its two awaits
InFlight(s) == scans[s].pc \in {"vision", "text"}
InFlightSlots == {s \in Slots : InFlight(s)}
IdleSlots == Slots \ InFlightSlots

\* An execution that has returned: its closure (image, mime, problem) is gone
Finished(scan) == [FreeScan EXCEPT !.pc = "done", !.vision = scan.vision, !.text = scan.text]

\* The record a new handleSubmit execution takes
NewSlot == CHOOSE s \in IdleSlots : \A r \in IdleSlots : s <= r

Remove(seq, i) == SubSeq(seq, 1, i - 1) \o SubSeq(seq, i + 1, Len(seq))

Init ==
    /\ variant \in {"App", "Part"}
    /\ selectedImage = Null
    /\ mimeType = << >>
    /\ problemDescription = << >>
    /\ suggestedSolutions = << >>
    /\ loading = FALSE
    /\ error = ""
    /\ inputFile = NoFile
    /\ readers = << >>
    /\ scans = [s \in Slots |-> FreeScan]
    /\ problemOf = Null
    /\ solutionsOf = Null

\* ------------------------------------------------ src/src/App.jsx handlers
App_handleImageChange(file) ==
    /\ variant = "App"
    /\ inputFile' = file
    /\ IF file.present
       THEN IF ~IsImage(file)
            THEN /\ error' = PleaseUploadApp
                 /\ selectedImage' = Null
                 /\ problemDescription' = << >>
                 /\ suggestedSolutions' = << >>
                 /\ UNCHANGED <<readers, mimeType, loading>>
            ELSE /\ Len(readers) < MaxReaders
                 /\ readers' = Append(readers, file)
                 /\ UNCHANGED uiVars
       ELSE /\ selectedImage' = Null
            /\ problemDescription' = << >>
            /\ suggestedSolutions' = << >>
            /\ error' = ""
            /\ UNCHANGED <<readers, mimeType, loading>>
    /\ UNCHANGED <<variant, scans>>

\* reader.onloadend after a successful read
App_onloadend(i) ==
    /\ variant = "App"
    /\ i \in 1..Len(readers)
    /\ selectedImage' = Str(base64String(readers[i]))
    /\ error' = ""
    /\ problemDescription' = << >>
    /\ suggestedSolutions' = << >>
    /\ readers' = Remove(readers, i)
    /\ UNCHANGED <<variant, mimeType, loading, inputFile, scans>>

\* reader.onerror; the loadend event that follows finds reader.result null,
\* so onloadend throws at null.split before any setter runs
App_onerror(i) ==
    /\ variant = "App"
    /\ i \in 1..Len(readers)
    /\ error' = FailedToRead
    /\ selectedImage' = Null
    /\ readers' = Remove(readers, i)
    /\ UNCHANGED <<variant, mimeType, problemDescription, suggestedSolutions, loading,
                   inputFile, scans>>


\* Mutant of disabled: the button ignores loading
disabled_ignoresLoading == ~Truthy(selectedImage)

\* The scan button's disabled attribute (the same expression in both versions)
disabled == loading \/ ~Truthy(selectedImage)

\* callGeminiVision, from the settling of its fetch to its return or throw
App_callGeminiVision(resp) ==
    IF resp.fetch = "rejected"
    THEN Throw("Failed to analyze image: Failed to fetch")
    ELSE IF ~resp.ok
    THEN Throw("Failed to analyze image: API error: Bad Request")
    ELSE IF Len(resp.candidates) > 0
    THEN Return(resp.candidates[1])
    ELSE Throw("Failed to analyze image: No valid response from Gemini Vision API.")

\* callGeminiText, from the settling of its fetch to its return or throw
App_callGeminiText(resp) ==
    IF resp.fetch = "rejected"
    THEN Throw("Failed to get solutions: Failed to fetch")
    ELSE IF ~resp.ok
    THEN Throw("Failed to get solutions: API error: Bad Request")
    ELSE IF Len(resp.candidates) > 0
    THEN Return(resp.candidates[1])
    ELSE Throw("Failed to get solutions: No valid response from Gemini Text API.")

\* Mutant of App_handleSubmit: the `if (!selectedImage)` guard is missing
App_handleSubmit_noGuard ==
    /\ variant = "App"
    /\ IdleSlots # {}
    /\ loading' = TRUE
    /\ error' = ""
    /\ problemDescription' = << >>
    /\ suggestedSolutions' = << >>
    /\ scans' = [scans EXCEPT ![NewSlot] =
                    [pc |-> "vision", image |-> selectedImage,
                     mime |-> <<"image/", "jpeg">>, problem |-> << >>,
                     vision |-> "pending", text |-> "none"]]
    /\ UNCHANGED <<variant, selectedImage, mimeType, inputFile, readers>>

\* handleSubmit up to its first await: the guard, the resets, and the vision
\* request, which carries the selectedImage of the render that was clicked
App_handleSubmit ==
    /\ variant = "App"
    /\ IdleSlots # {}
    /\ IF ~Truthy(selectedImage)
       THEN /\ error' = PleaseSelect
            /\ scans' = [scans EXCEPT ![NewSlot] =
                            [FreeScan EXCEPT !.pc = "refused", !.image = selectedImage]]
            /\ UNCHANGED <<loading, problemDescription, suggestedSolutions>>
       ELSE /\ loading' = TRUE
            /\ error' = ""
            /\ problemDescription' = << >>
            /\ suggestedSolutions' = << >>
            /\ scans' = [scans EXCEPT ![NewSlot] =
                            [pc |-> "vision", image |-> selectedImage,
                             mime |-> <<"image/", "jpeg">>, problem |-> << >>,
                             vision |-> "pending", text |-> "none"]]
    /\ UNCHANGED <<variant, selectedImage, mimeType, inputFile, readers>>

\* A click on the scan button, which the browser delivers only when enabled
App_ClickScan == ~disabled /\ App_handleSubmit

\* the catch and finally blocks of handleSubmit
App_catch(s, message, failedCall) ==
    /\ error' = message
    /\ problemDescription' = CouldNotDiagnose
    /\ suggestedSolutions' = CouldNotSuggest
    /\ loading' = FALSE
    /\ scans' = [scans EXCEPT ![s] = [Finished(scans[s]) EXCEPT ![failedCall] = "failed"]]

\* handleSubmit resumes after `await callGeminiVision(selectedImage)`
App_visionSettled(s, resp) ==
    /\ variant = "App"
    /\ scans[s].pc = "vision"
    /\ LET r == App_callGeminiVision(resp)
       IN IF r.threw
          THEN App_catch(s, r.message, "vision")
          ELSE /\ problemDescription' = r.value
               /\ scans' = [scans EXCEPT ![s].pc = "text", ![s].problem = r.value,
                                         ![s].vision = "ok", ![s].text = "pending"]
               /\ UNCHANGED <<suggestedSolutions, loading, error>>
    /\ UNCHANGED <<variant, selectedImage, mimeType, inputFile, readers>>

\* handleSubmit resumes after `await callGeminiText(problem)`
App_textSettled(s, resp) ==
    /\ variant = "App"
    /\ scans[s].pc = "text"
    /\ LET r == App_callGeminiText(resp)
       IN IF r.threw
          THEN App_catch(s, r.message, "text")
          ELSE /\ suggestedSolutions' = r.value
               /\ loading' = FALSE
               /\ scans' = [scans EXCEPT ![s] = [Finished(scans[s]) EXCEPT !.text = "ok"]]
               /\ UNCHANGED <<problemDescription, error>>
    /\ UNCHANGED <<variant, selectedImage, mimeType, inputFile, readers>>

\* ------------------------------------------- src/unnamed/part_000 handlers
Part_handleImageChange(file) ==
    /\ variant = "Part"
    /\ inputFile' = file
    /\ IF file.present
       THEN IF ~IsImage(file)
            THEN /\ error' = PleaseUploadPart
                 /\ selectedImage' = Null
                 /\ UNCHANGED <<readers, mimeType, problemDescription,
                                suggestedSolutions, loading>>
            ELSE /\ Len(readers) < MaxReaders
                 /\ readers' = Append(readers, file)
                 /\ UNCHANGED uiVars
       ELSE UNCHANGED <<readers, uiVars>>
    /\ UNCHANGED <<variant, scans>>

\* reader.onloadend after a successful read
Part_onloadend(i) ==
    /\ variant = "Part"
    /\ i \in 1..Len(readers)
    /\ selectedImage' = Str(base64String(readers[i]))
    /\ mimeType' = readers[i].type
    /\ error' = ""
    /\ problemDescription' = << >>
    /\ suggestedSolutions' = << >>
    /\ readers' = Remove(readers, i)
    /\ UNCHANGED <<variant, loading, inputFile, scans>>

\* reader.onloadend after a failed read: reader.result is null and
\* null.split throws before any setter runs (there is no onerror handler)
Part_onloadendFailed(i) ==
    /\ variant = "Part"
    /\ i \in 1..Len(readers)
    /\ readers' = Remove(readers, i)
    /\ UNCHANGED <<variant, uiVars, inputFile, scans>>

Part_callGeminiVision(resp) ==
    IF resp.fetch = "rejected"
    THEN Throw("Failed to fetch")
    ELSE IF ~resp.ok
    THEN Throw("Image analysis failed")
    ELSE IF Len(resp.candidates) > 0
    THEN Return(resp.candidates[1])
    ELSE Return(<< >>)

Part_callGeminiText(resp) ==
    IF resp.fetch = "rejected"
    THEN Throw("Failed to fetch")
    ELSE IF ~resp.ok
    THEN Throw("Solution generation failed")
    ELSE IF Len(resp.candidates) > 0
    THEN Return(resp.candidates[1])
    ELSE Return(<< >>)

\* handleSubmit up to its first await; callGeminiVision reads the mimeType
\* of the same render as selectedImage
Part_handleSubmit ==
    /\ variant = "Part"
    /\ IdleSlots # {}
    /\ IF ~Truthy(selectedImage)
       THEN /\ error' = PleaseSelect
            /\ scans' = [scans EXCEPT ![NewSlot] =
                            [FreeScan EXCEPT !.pc = "refused", !.image = selectedImage]]
            /\ UNCHANGED loading
       ELSE /\ loading' = TRUE
            /\ error' = ""
            /\ scans' = [scans EXCEPT ![NewSlot] =
                            [pc |-> "vision", image |-> selectedImage,
                             mime |-> mimeType, problem |-> << >>,
                             vision |-> "pending", text |-> "none"]]
    /\ UNCHANGED <<variant, selectedImage, mimeType, problemDescription,
                   suggestedSolutions, inputFile, readers>>

Part_ClickScan == ~disabled /\ Part_handleSubmit

\* Mutant of Part_catch: setLoading(false) sits in the try block, not in finally
Part_catch_noFinally(s, message, failedCall) ==
    /\ error' = message
    /\ UNCHANGED loading
    /\ scans' = [scans EXCEPT ![s] = [Finished(scans[s]) EXCEPT ![failedCall] = "failed"]]

\* the catch and finally blocks of handleSubmit
Part_catch(s, message, failedCall) ==
    /\ error' = message
    /\ loading' = FALSE
    /\ scans' = [scans EXCEPT ![s] = [Finished(scans[s]) EXCEPT ![failedCall] = "failed"]]

\* Mutant of Part_visionSettled: a failed diagnosis is recorded but the
\* execution carries on to the remedy request
Part_visionSettled_carriesOn(s, resp) ==
    /\ variant = "Part"
    /\ scans[s].pc = "vision"
    /\ LET r == Part_callGeminiVision(resp)
       IN /\ error' = r.message
          /\ problemDescription' = trim(StripStars(r.value))
          /\ scans' = [scans EXCEPT ![s].pc = "text", ![s].problem = r.value,
                                    ![s].vision = IF r.threw THEN "failed" ELSE "ok",
                                    ![s].text = "pending"]
          /\ UNCHANGED loading
    /\ UNCHANGED <<variant, selectedImage, mimeType, suggestedSolutions, inputFile, readers>>

\* handleSubmit resumes after `await callGeminiVision(selectedImage)`
Part_visionSettled(s, resp) ==
    /\ variant = "Part"
    /\ scans[s].pc = "vision"
    /\ LET r == Part_callGeminiVision(resp)
       IN IF r.threw
          THEN Part_catch(s, r.message, "vision") /\ UNCHANGED problemDescription
          ELSE /\ problemDescription' = trim(StripStars(r.value))
               /\ scans' = [scans EXCEPT ![s].pc = "text", ![s].problem = r.value,
                                         ![s].vision = "ok", ![s].text = "pending"]
               /\ UNCHANGED <<loading, error>>
    /\ UNCHANGED <<variant, selectedImage, mimeType, suggestedSolutions, inputFile, readers>>

\* handleSubmit resumes after `await callGeminiText(problem)`
Part_textSettled(s, resp) ==
    /\ variant = "Part"
    /\ scans[s].pc = "text"
    /\ LET r == Part_callGeminiText(resp)
       IN IF r.threw
          THEN Part_catch(s, r.message, "text") /\ UNCHANGED suggestedSolutions
          ELSE /\ suggestedSolutions' = trim(StripStars(r.value))
               /\ loading' = FALSE
               /\ scans' = [scans EXCEPT ![s] = [Finished(scans[s]) EXCEPT !.text = "ok"]]
               /\ UNCHANGED error
    /\ UNCHANGED <<variant, selectedImage, mimeType, problemDescription, inputFile, readers>>

\* ---------------------------------------------------------- specifications
SelectFile ==
    \E file \in Selections : App_handleImageChange(file) \/ Part_handleImageChange(file)

ReadLoads == \E i \in 1..MaxReaders : App_onloadend(i) \/ Part_onloadend(i)

ReadFails == \E i \in 1..MaxReaders : App_onerror(i) \/ Part_onloadendFailed(i)

ReadSettles == ReadLoads \/ ReadFails

VisionSettles(s) == \E resp \in Responses : App_visionSettled(s, resp) \/ Part_visionSettled(s, resp)

TextSettles(s) == \E resp \in Responses : App_textSettled(s, resp) \/ Part_textSettled(s, resp)

Settles == \E s \in Slots : VisionSettles(s) \/ TextSettles(s)

\* The execution in slot s calls setProblemDescription in this step: with the
\* diagnosis it received, or (App.jsx) with the placeholder of its catch block
WritesProblem(s) ==
    \/ scans[s].pc = "vision" /\ scans'[s].vision = "ok"
    \/ /\ variant = "App"
       /\ InFlight(s)
       /\ scans'[s].pc = "done"
       /\ "failed" \in {scans'[s].vision, scans'[s].text}

\* The execution in slot s calls setSuggestedSolutions in this step
WritesSolutions(s) ==
    \/ scans[s].pc = "text" /\ scans'[s].text = "ok"
    \/ /\ variant = "App"
       /\ InFlight(s)
       /\ scans'[s].pc = "done"
       /\ "failed" \in {scans'[s].vision, scans'[s].text}

\* The history variables follow the step the handlers have taken: a text is
\* attributed to the image sent by the execution that wrote it, and to no
\* image once it is empty
History ==
    /\ problemOf' =
           IF problemDescription' = << >> THEN Null
           ELSE IF \E s \in Slots : WritesProblem(s)
           THEN scans[CHOOSE s \in Slots : WritesProblem(s)].image
           ELSE problemOf
    /\ solutionsOf' =
           IF suggestedSolutions' = << >> THEN Null
           ELSE IF \E s \in Slots : WritesSolutions(s)
           THEN scans[CHOOSE s \in Slots : WritesSolutions(s)].image
           ELSE solutionsOf

\* The component driven through its rendered interface
Next ==
    \/ SelectFile /\ History
    \/ ReadLoads /\ History
    \/ ReadFails /\ History
    \/ App_ClickScan /\ History
    \/ Part_ClickScan /\ History
    \/ Settles /\ History

Spec == Init /\ [][Next]_vars

\* The handlers called directly, without the button's disabled attribute
\* standing between the caller and handleSubmit
DirectCall == Cardinality(InFlightSlots) < MaxDirect /\ (App_handleSubmit \/ Part_handleSubmit)

NextHandlers ==
    \/ SelectFile /\ History
    \/ ReadLoads /\ History
    \/ ReadFails /\ History
    \/ DirectCall /\ History
    \/ Settles /\ History

SpecHandlers == Init /\ [][NextHandlers]_vars

\* The behaviours of the component in which every FileReader read succeeds
NextReadsSucceed ==
    \/ SelectFile /\ History
    \/ ReadLoads /\ History
    \/ App_ClickScan /\ History
    \/ Part_ClickScan /\ History
    \/ Settles /\ History

SpecReadsSucceed == Init /\ [][NextReadsSucceed]_vars

\* Every issued fetch eventually settles
FairSpec ==
    /\ Spec
    /\ \A s \in Slots :
           /\ WF_vars(VisionSettles(s) /\ History)
           /\ WF_vars(TextSettles(s) /\ History)


\* ------------------------------------------------------------------ claims
\* Steps of one handleSubmit execution, seen on its record
Begins(s) == ~InFlight(s) /\ scans'[s] # scans[s]
Starts(s) == ~InFlight(s) /\ scans'[s].pc = "vision"
VisionFails(s) == scans[s].pc = "vision" /\ scans'[s].pc = "done"
TextFails(s) == scans[s].pc = "text" /\ scans'[s].pc = "done" /\ scans'[s].text = "failed"
BothSucceed(s) == scans[s].pc = "text" /\ scans'[s].pc = "done" /\ scans'[s].text = "ok"
Finishes(s) == InFlight(s) /\ scans'[s].pc = "done"

\* C1: a handleSubmit call made while no image is selected ends in the
\* 'Please select an image to scan.' error, leaves loading as it was, and
\* sends no request: no execution holding an empty image ever has a
\* diagnosis or remedy request.
RefusedSendsNothing ==
    \A s \in Slots :
        ~Truthy(scans[s].image) /\ scans[s].pc # "done" =>
            /\ scans[s].pc \in {"free", "refused"}
            /\ scans[s].vision = "none"
            /\ scans[s].text = "none"
RefusalStep ==
    \A s \in Slots :
        Begins(s) /\ ~Truthy(selectedImage) =>
            /\ scans'[s].pc = "refused"
            /\ error' = PleaseSelect
            /\ loading' = loading
C1_NoImageNoScan == []RefusedSendsNothing /\ [][RefusalStep]_vars
C1_Witness == \E s \in Slots : scans[s].pc = "refused" /\ error = PleaseSelect /\ ~loading

\* C2: when a scan ends because its diagnosis call failed, suggestedSolutions
\* is empty and loading is false.
C2_DiagnosisFailureLeavesNoSolutions ==
    [][\A s \in Slots : VisionFails(s) => suggestedSolutions' = << >> /\ ~loading']_vars

\* C3: when a scan ends with both calls successful, problemDescription and
\* suggestedSolutions are non-empty and error is empty.
C3_SuccessShowsBothTexts ==
    [][\A s \in Slots :
          BothSucceed(s) =>
              /\ problemDescription' # << >>
              /\ suggestedSolutions' # << >>
              /\ error' = ""]_vars

\* C4: when a scan ends because its remedy call failed, error is set,
\* problemDescription holds the text the diagnosis call returned (as returned
\* or as post-processed), and suggestedSolutions is empty.
C4_RemedyFailureKeepsDiagnosis ==
    [][\A s \in Slots :
          TextFails(s) =>
              /\ error' # ""
              /\ problemDescription' \in {scans[s].problem, trim(StripStars(scans[s].problem))}
              /\ suggestedSolutions' = << >>]_vars

\* C5: the step that starts a scan leaves error, problemDescription and
\* suggestedSolutions empty and loading true.
C5_StartClearsEverything ==
    [][\A s \in Slots :
          Starts(s) =>
              /\ error' = ""
              /\ problemDescription' = << >>
              /\ suggestedSolutions' = << >>
              /\ loading']_vars

\* C6: every step that changes selectedImage leaves problemDescription and
\* suggestedSolutions empty.
C6_ImageChangeClearsResults ==
    [][selectedImage' # selectedImage =>
          problemDescription' = << >> /\ suggestedSolutions' = << >>]_vars

\* C7: while the file input holds a non-image file, selectedImage is null.
C7_NonImageLeavesNoImage ==
    inputFile.present /\ ~IsImage(inputFile) => selectedImage = Null

\* C8: a scan has a remedy request only after its diagnosis request has
\* succeeded; a scan whose diagnosis request failed has none, and while the
\* diagnosis request is pending none has been sent.
C8_RemedyOnlyAfterDiagnosis ==
    \A s \in Slots :
        /\ scans[s].text # "none" => scans[s].vision = "ok"
        /\ scans[s].vision \in {"pending", "failed"} => scans[s].text = "none"
C8_Witness ==
    \E s \in Slots : scans[s].pc = "text" /\ scans[s].vision = "ok" /\ scans[s].text = "pending"

\* C9: at most one handleSubmit execution is in flight.
C9_OneScanInFlight == Cardinality(InFlightSlots) <= 1
C9_Witness == InFlightSlots # {} /\ Truthy(selectedImage) /\ disabled /\ readers # << >>

\* C10: loading is true only while a scan is in flight, the step that ends a
\* scan sets it to false, and, every fetch settling eventually, loading
\* always returns to false.
C10_LoadingReturnsToIdle ==
    /\ [](loading => InFlightSlots # {})
    /\ [][\A s \in Slots : Finishes(s) => ~loading']_vars
    /\ (loading ~> ~loading)
C10_Witness ==
    \E s \in Slots : scans[s].pc = "done" /\ scans[s].vision = "failed" /\ ~loading


\* C11: a settling fetch whose ok body carries no candidate makes the call
\* fail: the diagnosis request is recorded failed, an error is set and no
\* remedy request follows; an empty body for the remedy request likewise
\* fails it with an error.
EmptyBody == OkBody(<< >>)
EmptyResponseStep ==
    \A s \in Slots :
        /\ (App_visionSettled(s, EmptyBody) \/ Part_visionSettled(s, EmptyBody)) =>
               scans'[s].vision = "failed" /\ scans'[s].text = "none" /\ error' # ""
        /\ (App_textSettled(s, EmptyBody) \/ Part_textSettled(s, EmptyBody)) =>
               scans'[s].text = "failed" /\ error' # ""
C11_EmptyResponseFails == [][EmptyResponseStep]_vars

\* C12: every pending diagnosis request carries the MIME type of the image
\* file whose base64 encoding it carries.
C12_RequestTaggedWithOwnType ==
    \A s \in Slots :
        scans[s].vision = "pending" =>
            \E file \in ImageFiles :
                scans[s].image = Str(base64String(file)) /\ scans[s].mime = file.type


\* C13: whenever the application is idle, a non-empty problemDescription or
\* suggestedSolutions was written by a scan of the image now in selectedImage.
C13_ResultsBelongToSelectedImage ==
    ~loading =>
        /\ problemDescription # << >> => problemOf = selectedImage
        /\ suggestedSolutions # << >> => solutionsOf = selectedImage

\* C14: once no read is pending, selectedImage holds the encoding of the
\* image file selected last (every read succeeding).
C14_LastSelectionWins ==
    readers = << >> /\ inputFile.present /\ IsImage(inputFile) =>
        selectedImage = Str(base64String(inputFile))

====
